---- MODULE Spec2Model ----
(***************************************************************************)
(* A model of rs-dbc (src/src/lib.rs): the DBC text parser Dbc::try_from,  *)
(* its byte-buffer entry points, and the accessors of Message, MessageID   *)
(* and Signal.                                                             *)
(*                                                                         *)
(* Text is modelled as a sequence of physical lines.  A line is a record   *)
(* holding the tokens the program's regular expressions capture from it.   *)
(* A decimal token is a record [tok, val]: tok = "dec" for digits whose    *)
(* value fits the integer type it is parsed into, tok = "huge" for digits  *)
(* that overflow it (str::parse fails), tok = "none" for a missing token.  *)
(* A u32 is the pair <<hi, lo>> of its 16-bit halves (hi * 2^16 + lo), so  *)
(* that ids with bit 31 set are representable.  Words that the program     *)
(* inspects character by character are sequences of one-character strings. *)
(* An f64 is an integer count of quarters (0.25 is 1, 5.0 is 20).          *)
(***************************************************************************)
EXTENDS Integers, Sequences, FiniteSets, TLC

VARIABLES
    buffer,              \* the caller's byte buffer / text, as a sequence of lines
    entry,               \* which entry point was called
    dbc_input,           \* the &str handed to try_from (after decoding)
    pc,                  \* position in try_from / parse_message / parse_signals
    lineNo,              \* parse_signals: index of the next line of the scan
    current_message_id,  \* parse_signals: current_message_id
    signals_map,         \* parse_signals: signals_map
    messages,            \* parse_message: the Vec<Message> built by the merge
    result,              \* the value (or panic) the entry point ends with
    previous,            \* the messages of the previous parse of the same text
    build,               \* "debug" (overflow checks on) or "release" (wrapping)
    shown                \* the last accessor call and what it returned

vars == <<buffer, entry, dbc_input, pc, lineNo, current_message_id,
          signals_map, messages, result, previous, build, shown>>

---------------------------------------------------------------------------
(* Bounds of the model *)

MaxLines == 3
MaxScanLines == 4
MaxStartBit == 23
MaxSignalSize == 16

---------------------------------------------------------------------------
(* Values *)

EmptyMap == [x \in {} |-> 0]

Put(map, k, v) == (k :> v) @@ map

Some(v) == [ok |-> TRUE, val |-> v]

None == [ok |-> FALSE]

\* decimal tokens
Dec(n) == [tok |-> "dec", val |-> n]

Huge == [tok |-> "huge", val |-> 0]

Absent == [tok |-> "none", val |-> 0]

\* a decimal token of a message id: the u32 hi * 2^16 + lo
Id(hi, lo) == [tok |-> "dec", val |-> <<hi, lo>>]

HugeId == [tok |-> "huge", val |-> <<0, 0>>]

\* str::parse::<u32> / str::parse::<u64> of a captured (\d+)
ParseInt(t) == IF t.tok = "dec" THEN Some(t.val) ELSE None

\* str::parse::<f64>: the literals the model uses, in quarters
ParseF64(s) ==
    CASE s = "0" -> Some(0)
      [] s = "0.0" -> Some(0)
      [] s = "0.25" -> Some(1)
      [] s = "1" -> Some(4)
      [] s = "5" -> Some(20)
      [] s = "16000" -> Some(64000)
      [] OTHER -> None

\* words
W_Vector__XXX == <<"V", "e", "c", "t", "o", "r", "_", "_", "X", "X", "X">>

W_No_Transmitter ==
    <<"N", "o", " ", "T", "r", "a", "n", "s", "m", "i", "t", "t", "e", "r">>

W_ECU == <<"E", "C", "U">>

W_Vector == <<"V", "e", "c", "t", "o", "r">>

W_Vector__XXX_GW == W_Vector__XXX \o <<"_", "G", "W">>

W_BO_ == <<"B", "O", "_">>

W_SG_ == <<"S", "G", "_">>

W_BA_ == <<"B", "A", "_">>

W_BA_DEF_DEF_ == <<"B", "A", "_", "D", "E", "F", "_", "D", "E", "F", "_">>

W_VAL_ == <<"V", "A", "L", "_">>

\* str::starts_with
starts_with(s, p) == Len(s) >= Len(p) /\ SubSeq(s, 1, Len(p)) = p

---------------------------------------------------------------------------
(* Lines of text *)

\* BO_ <id> <name>: [<size> [<transmitter>]]; wrapped: the header is broken
\* by a line feed after <id>, so that it is no single line of lines()
Header(id, name, size, tx, wrapped) ==
    [kind |-> "BO", id |-> id, name |-> name, size |-> size, tx |-> tx,
     wrapped |-> wrapped]

\* SG_ <name> <mux> : <start>|<size>@<order><sign> (<factor>,<offset>)
\*  [<min>|<max>] "<unit>" <receivers>
SignalLine(name, mux, start, size, order, sign, factor, offset, min, max, unit, receivers) ==
    [kind |-> "SG", name |-> name, mux |-> mux, start |-> start,
     size |-> size, order |-> order, sign |-> sign, factor |-> factor,
     offset |-> offset, min |-> min, max |-> max, unit |-> unit,
     receivers |-> receivers]

\* BA_DEF_DEF_ "GenMsgCycleTime" <n>;
DefaultCycle(n) == [kind |-> "BA_DEF_DEF", n |-> n]

\* BA_ "GenMsgCycleTime" BO_ <id> <n>;
ExplicitCycle(id, n) == [kind |-> "BA_CYCLE", id |-> id, n |-> n]

\* BA_ "GenSigStartValue" SG_ <id> <signal> <value>;
StartValue(id, sig, value) ==
    [kind |-> "BA_START", id |-> id, sig |-> sig, value |-> value]

\* VAL_ <id> <signal> <pairs>;  pairs: a sequence of [value, label], the
\* label "" standing for a pair the pair pattern does not match
ValLine(id, sig, pairs) ==
    [kind |-> "VAL", id |-> id, sig |-> sig, pairs |-> pairs]

\* a line that matches no pattern and begins with no word character
Comment == [kind |-> "TXT"]

\* a line of bytes that are not valid UTF-8
BadBytes == [kind |-> "BYTES"]

\* the same line after lossy decoding: U+FFFD characters, which are not \w
Replaced == [kind |-> "FFFD"]

\* the first \w+ of a line after leading white space, <<>> if it has none
FirstWord(l) ==
    CASE l.kind = "BO" -> W_BO_
      [] l.kind = "SG" -> W_SG_
      [] l.kind = "BA_DEF_DEF" -> W_BA_DEF_DEF_
      [] l.kind = "BA_CYCLE" -> W_BA_
      [] l.kind = "BA_START" -> W_BA_
      [] l.kind = "VAL" -> W_VAL_
      [] OTHER -> <<>>

---------------------------------------------------------------------------
(* The whole-text extractors.  captures_iter yields the matches in text    *)
(* order, so each is a left fold over the lines; HashMap::insert replaces  *)
(* the value of a key that is already present.                             *)

RECURSIVE NameFold(_, _)
NameFold(lines, map) ==
    IF lines = <<>> THEN map
    ELSE LET l == Head(lines)
             id == ParseInt(l.id)
         IN  NameFold(Tail(lines),
                      IF l.kind = "BO" /\ id.ok
                      THEN Put(map, id.val, l.name)
                      ELSE map)

\* BO_\s+(\d+)\s+(\w+):
parse_message_name(text) == NameFold(text, EmptyMap)

RECURSIVE SizeFold(_, _)
SizeFold(lines, map) ==
    IF lines = <<>> THEN map
    ELSE LET l == Head(lines)
         IN  SizeFold(Tail(lines),
                      IF /\ l.kind = "BO"
                         /\ l.size.tok # "none"
                         /\ ParseInt(l.id).ok
                         /\ ParseInt(l.size).ok
                      THEN Put(map, ParseInt(l.id).val, ParseInt(l.size).val)
                      ELSE map)

\* BO_\s+(\d+)\s+\w+:\s+(\d+); no line of the model begins with a digit, so
\* a header that ends at its colon has no size
parse_message_size(text) == SizeFold(text, EmptyMap)

\* BO_\s+(\d+)\s+\w+:\s+\d+\s+(\w+): the word after the size.  \s+ also
\* matches a line feed, so for a header that ends at its size the word is
\* the first word of the next line; that word is then part of the match,
\* and a header it begins is passed over (matches do not overlap).
RECURSIVE TransmitterFold(_, _, _, _)
TransmitterFold(text, i, eaten, map) ==
    IF i > Len(text) THEN map
    ELSE LET l == text[i]
             hit == l.kind = "BO" /\ ~eaten /\ l.size.tok # "none"
             next == IF i < Len(text) THEN FirstWord(text[i + 1]) ELSE <<>>
             word == IF hit THEN (IF l.tx # <<>> THEN l.tx ELSE next) ELSE <<>>
             matched == hit /\ word # <<>>
         IN  TransmitterFold(text, i + 1,
                             matched /\ l.tx = <<>>,
                             IF matched /\ ParseInt(l.id).ok
                             THEN Put(map, ParseInt(l.id).val, word)
                             ELSE map)

parse_message_transmitters(text) == TransmitterFold(text, 1, FALSE, EmptyMap)

\* the first line Regex::captures matches, 0 if none
RECURSIVE FirstOfKind(_, _, _)
FirstOfKind(text, i, k) ==
    IF i > Len(text) THEN 0
    ELSE IF text[i].kind = k THEN i
    ELSE FirstOfKind(text, i + 1, k)

\* BA_DEF_DEF_\s+"GenMsgCycleTime"\s+(\d+);  only the first match is read
parse_default_cycle_time(text) ==
    LET i == FirstOfKind(text, 1, "BA_DEF_DEF")
    IN  IF i = 0 THEN None ELSE ParseInt(text[i].n)

RECURSIVE ExplicitFold(_, _)
ExplicitFold(lines, map) ==
    IF lines = <<>> THEN map
    ELSE LET l == Head(lines)
         IN  ExplicitFold(Tail(lines),
                          IF /\ l.kind = "BA_CYCLE"
                             /\ ParseInt(l.id).ok
                             /\ ParseInt(l.n).ok
                          THEN Put(map, ParseInt(l.id).val, ParseInt(l.n).val)
                          ELSE map)

\* BA_ "GenMsgCycleTime" BO_ (\d+) (\d+);
parse_explicit_cycle_time(text) == ExplicitFold(text, EmptyMap)

RECURSIVE InitialFold(_, _)
InitialFold(lines, map) ==
    IF lines = <<>> THEN map
    ELSE LET l == Head(lines)
         IN  InitialFold(Tail(lines),
                         IF /\ l.kind = "BA_START"
                            /\ ParseInt(l.id).ok
                            /\ ParseF64(l.value).ok
                         THEN Put(map, <<ParseInt(l.id).val, l.sig>>,
                                  ParseF64(l.value).val)
                         ELSE map)

\* BA_\s+"GenSigStartValue"\s+SG_\s+(\d+)\s+([^\s]+)\s+([^;]+);
parse_initial_values(text) == InitialFold(text, EmptyMap)

\* (\d+)\s+"([^"]+)" over the pairs of one VAL_ directive
RECURSIVE PairFold(_, _)
PairFold(pairs, map) ==
    IF pairs = <<>> THEN map
    ELSE LET p == Head(pairs)
         IN  PairFold(Tail(pairs),
                      IF p.label # "" /\ ParseInt(p.value).ok
                      THEN Put(map, ParseInt(p.value).val, p.label)
                      ELSE map)

RECURSIVE ValFold(_, _)
ValFold(lines, map) ==
    IF lines = <<>> THEN map
    ELSE LET l == Head(lines)
             signal_values == PairFold(l.pairs, EmptyMap)
         IN  ValFold(Tail(lines),
                     IF /\ l.kind = "VAL"
                        /\ ParseInt(l.id).ok
                        /\ DOMAIN signal_values # {}
                     THEN Put(map, <<ParseInt(l.id).val, l.sig>>, signal_values)
                     ELSE map)

\* VAL_\s+(\d+)\s+(\w+)\s+(.+?);
parse_value_descriptions(text) == ValFold(text, EmptyMap)

---------------------------------------------------------------------------
(* MessageID, Message and Signal *)

\* id < 0x800
IsStandardId(id) == id[1] = 0 /\ id[2] < 2048

\* id as u16: the low 16 bits
AsU16(id) == id[2]

Standard(id16) == [variant |-> "Standard", id |-> <<0, id16>>]

Extended(id32) == [variant |-> "Extended", id |-> id32]

\* parse_message: the MessageID of a header id
MessageIdOf(id) ==
    IF IsStandardId(id) THEN Standard(AsU16(id)) ELSE Extended(id)

\* MessageID::raw: Standard(id) => id as u32, Extended(id) => id | (1 << 31)
raw(message_id) ==
    IF message_id.variant = "Standard" THEN message_id.id
    ELSE <<IF message_id.id[1] >= 32768 THEN message_id.id[1]
           ELSE message_id.id[1] + 32768,
           message_id.id[2]>>

\* MessageID::kind
kind(message_id) ==
    IF message_id.variant = "Standard" THEN "CAN Standard" ELSE "CAN Extended"

\* Message::transmitter
transmitter(message) ==
    IF starts_with(message.transmitter, W_Vector__XXX)
    THEN W_No_Transmitter
    ELSE message.transmitter

\* a plain difference in place of the saturating one
saturating_sub_abs(a, b) == IF a >= b THEN a - b ELSE b - a

\* u64::saturating_sub
saturating_sub(a, b) == IF a >= b THEN a - b ELSE 0

\* the largest u64, scaled to the integers of the model checker: it exceeds
\* every start_bit of the model, as 2^64 - 1 exceeds every u64 start_bit
U64Max == 2147483647

\* self.signal_size - 1 on u64: below zero the debug build panics and the
\* release build wraps around
SizeMinusOne(signal_size, mode) ==
    IF signal_size >= 1 THEN [panicked |-> FALSE, val |-> signal_size - 1]
    ELSE IF mode = "debug" THEN [panicked |-> TRUE, val |-> 0]
    ELSE [panicked |-> FALSE, val |-> U64Max]

\* Signal::vector_start_bit
vector_start_bit(signal, mode) ==
    CASE signal.byte_order = "Intel" ->
            [panicked |-> FALSE, val |-> signal.start_bit]
      [] signal.byte_order = "Motorola" ->
            LET start_byte == signal.start_bit \div 8
                start_bit_in_byte == signal.start_bit % 8
                less == SizeMinusOne(signal.signal_size, mode)
                end_bit == saturating_sub(signal.start_bit, less.val)
                end_byte == end_bit \div 8
            IN  IF less.panicked THEN [panicked |-> TRUE, val |-> 0]
                ELSE IF start_byte # end_byte \/ signal.signal_size > 8
                THEN [panicked |-> FALSE, val |-> end_bit]
                ELSE IF start_bit_in_byte # 7
                THEN [panicked |-> FALSE, val |-> end_bit]
                ELSE [panicked |-> FALSE, val |-> signal.start_bit]
      [] OTHER -> [panicked |-> FALSE, val |-> signal.signal_size]

---------------------------------------------------------------------------
(* parse_signals: one line of the scan *)

\* the header test: BO_\s+(\d+)\s+\w+: on a single line
HeaderMatch(line) == line.kind = "BO" /\ ~line.wrapped

\* current_message_id after the header test
IdAfterHeader(line, current) ==
    IF HeaderMatch(line) /\ ParseInt(line.id).ok
    THEN ParseInt(line.id).val
    ELSE current

\* an insert that replaces the list of an id already present
OrInsertEmpty_Reset(map, id) == Put(map, id, <<>>)

\* signals_map.entry(current_message_id).or_insert_with(Vec::new)
OrInsertEmpty(map, id) == IF id \in DOMAIN map THEN map ELSE Put(map, id, <<>>)

MapAfterHeader(line, map) ==
    IF HeaderMatch(line) /\ ParseInt(line.id).ok
    THEN OrInsertEmpty(map, ParseInt(line.id).val)
    ELSE map

\* the numeric captures of a signal line all parse
SignalParses(line) ==
    /\ line.kind = "SG"
    /\ ParseInt(line.start).ok
    /\ ParseInt(line.size).ok
    /\ ParseF64(line.factor).ok
    /\ ParseF64(line.offset).ok
    /\ ParseF64(line.min).ok
    /\ ParseF64(line.max).ok

MultiplexerType(multiplexer_info) ==
    IF multiplexer_info = <<>> THEN "Plain"
    ELSE IF multiplexer_info = <<"M">> THEN "Multiplexer"
    ELSE IF starts_with(multiplexer_info, <<"m">>) THEN "Multiplexed"
    ELSE "Plain"

\* HashMap::get(..).cloned().unwrap_or_default() / .copied().unwrap_or(0.0)
GetOr(map, k, default) == IF k \in DOMAIN map THEN map[k] ELSE default

\* a lookup by signal name alone, under whatever id
AnyOfName(map, name, default) ==
    IF \E key \in DOMAIN map : key[2] = name
    THEN map[CHOOSE key \in DOMAIN map : key[2] = name]
    ELSE default

\* a Signal whose directives are looked up by signal name alone
SignalOf_ByName(line, current, value_descriptions, initial_values) ==
    [name |-> line.name,
     start_bit |-> ParseInt(line.start).val,
     signal_size |-> ParseInt(line.size).val,
     byte_order |-> IF line.order = "1" THEN "Intel" ELSE "Motorola",
     value_type |-> IF line.sign = "+" THEN "Unsigned" ELSE "Signed",
     factor |-> ParseF64(line.factor).val,
     offset |-> ParseF64(line.offset).val,
     min |-> ParseF64(line.min).val,
     max |-> ParseF64(line.max).val,
     unit |-> line.unit,
     receivers |-> line.receivers,
     value_descriptions |-> AnyOfName(value_descriptions, line.name, EmptyMap),
     multiplexer_type |-> MultiplexerType(line.mux),
     initial_value |-> AnyOfName(initial_values, line.name, 0)]

\* the Signal built from a signal line under current_message_id
SignalOf(line, current, value_descriptions, initial_values) ==
    [name |-> line.name,
     start_bit |-> ParseInt(line.start).val,
     signal_size |-> ParseInt(line.size).val,
     byte_order |-> IF line.order = "1" THEN "Intel" ELSE "Motorola",
     value_type |-> IF line.sign = "+" THEN "Unsigned" ELSE "Signed",
     factor |-> ParseF64(line.factor).val,
     offset |-> ParseF64(line.offset).val,
     min |-> ParseF64(line.min).val,
     max |-> ParseF64(line.max).val,
     unit |-> line.unit,
     receivers |-> line.receivers,
     value_descriptions |->
         GetOr(value_descriptions, <<current, line.name>>, EmptyMap),
     multiplexer_type |-> MultiplexerType(line.mux),
     initial_value |-> GetOr(initial_values, <<current, line.name>>, 0)]

\* if let Some(signals) = signals_map.get_mut(&current_message_id) { push }
PushSignal(map, id, signal) ==
    IF id \in DOMAIN map THEN [map EXCEPT ![id] = Append(@, signal)] ELSE map

\* signals_map after the body of the loop for one line
MapAfterLine(line, current, map, text) ==
    LET id == IdAfterHeader(line, current)
        withEntry == MapAfterHeader(line, map)
    IN  IF SignalParses(line)
        THEN PushSignal(withEntry, id,
                        SignalOf(line, id, parse_value_descriptions(text),
                                 parse_initial_values(text)))
        ELSE withEntry

---------------------------------------------------------------------------
(* parse_message: the merge *)

\* the orders in which a HashMap with the given keys may be iterated
Orders(keys) ==
    {o \in [1..Cardinality(keys) -> keys] :
        \A i, j \in 1..Cardinality(keys) : i # j => o[i] # o[j]}

\* a merge that prefers the document-wide default to the explicit override
MessageOf_DefaultFirst(id, text, signals) ==
    LET default == parse_default_cycle_time(text)
    IN  [message_name |-> parse_message_name(text)[id],
         message_id |-> MessageIdOf(id),
         message_size |-> GetOr(parse_message_size(text), id, 0),
         cycle_time |-> IF default.ok THEN default.val
                        ELSE GetOr(parse_explicit_cycle_time(text), id, 0),
         transmitter |-> GetOr(parse_message_transmitters(text), id, W_Vector__XXX),
         signals |-> GetOr(signals, id, <<>>)]

\* the Message pushed for one (id, message_name) of message_names
MessageOf(id, text, signals) ==
    LET default_cycles ==
            IF parse_default_cycle_time(text).ok
            THEN parse_default_cycle_time(text).val ELSE 0
    IN  [message_name |-> parse_message_name(text)[id],
         message_id |-> MessageIdOf(id),
         message_size |-> GetOr(parse_message_size(text), id, 0),
         cycle_time |-> GetOr(parse_explicit_cycle_time(text), id, default_cycles),
         transmitter |-> GetOr(parse_message_transmitters(text), id, W_Vector__XXX),
         signals |-> GetOr(signals, id, <<>>)]

\* the Vec<Message> for one iteration order of message_names
parse_message(order, text, signals) ==
    [k \in 1..Len(order) |-> MessageOf(order[k], text, signals)]

\* an emptiness test that is off by one
TryFromResult_OffByOne(msgs, text) ==
    IF Len(msgs) <= 1
    THEN [kind |-> "Invalid", messages |-> msgs, text |-> text]
    ELSE [kind |-> "Ok", messages |-> msgs, text |-> <<>>]

\* try_from: Err(Invalid(Dbc, String)) when messages is empty, else Ok(Dbc)
TryFromResult(msgs, text) ==
    IF msgs = <<>>
    THEN [kind |-> "Invalid", messages |-> msgs, text |-> text]
    ELSE [kind |-> "Ok", messages |-> msgs, text |-> <<>>]

---------------------------------------------------------------------------
(* Entry points *)

\* str::from_utf8(buffer) is Ok
ValidUtf8(buf) == \A i \in 1..Len(buf) : buf[i].kind # "BYTES"

\* String::from_utf8_lossy(buffer)
from_utf8_lossy(buf) ==
    [i \in 1..Len(buf) |-> IF buf[i].kind = "BYTES" THEN Replaced ELSE buf[i]]

NoResult == [kind |-> "none", messages |-> <<>>, text |-> <<>>]

Panicked == [kind |-> "panic", messages |-> <<>>, text |-> <<>>]

NoCall == [op |-> "none"]

\* the first statements of try_from, parse_message and parse_signals
Begin(text) ==
    /\ dbc_input' = text
    /\ pc' = "scan"
    /\ lineNo' = 1
    /\ current_message_id' = <<0, 0>>
    /\ signals_map' = EmptyMap
    /\ messages' = <<>>
    /\ result' = NoResult

\* Dbc::try_from(&str): the caller's text is a str, hence valid UTF-8
TryFrom ==
    /\ pc = "idle"
    /\ ValidUtf8(buffer)
    /\ entry' = "try_from"
    /\ Begin(buffer)
    /\ UNCHANGED <<buffer, previous, build, shown>>

\* Dbc::from_slice: str::from_utf8(buffer).unwrap(), then try_from
FromSlice ==
    /\ pc = "idle"
    /\ entry' = "from_slice"
    /\ IF ValidUtf8(buffer)
       THEN Begin(buffer)
       ELSE /\ pc' = "done"
            /\ result' = Panicked
            /\ UNCHANGED <<dbc_input, lineNo, current_message_id,
                           signals_map, messages>>
    /\ UNCHANGED <<buffer, previous, build, shown>>

\* Dbc::from_slice_lossy: String::from_utf8_lossy(buffer), then try_from
FromSliceLossy ==
    /\ pc = "idle"
    /\ entry' = "from_slice_lossy"
    /\ Begin(from_utf8_lossy(buffer))
    /\ UNCHANGED <<buffer, previous, build, shown>>

\* parse_signals: the body of `for line in lines` for the next line
ScanLine ==
    /\ pc = "scan"
    /\ lineNo <= Len(dbc_input)
    /\ current_message_id' =
           IdAfterHeader(dbc_input[lineNo], current_message_id)
    /\ signals_map' = MapAfterLine(dbc_input[lineNo], current_message_id,
                                   signals_map, dbc_input)
    /\ lineNo' = lineNo + 1
    /\ UNCHANGED <<buffer, entry, dbc_input, pc, messages, result, previous,
                   build, shown>>

\* parse_message: `for (id, message_name) in message_names`, in the order
\* the HashMap happens to iterate in
ParseMessage ==
    /\ pc = "scan"
    /\ lineNo > Len(dbc_input)
    /\ \E order \in Orders(DOMAIN parse_message_name(dbc_input)) :
           messages' = parse_message(order, dbc_input, signals_map)
    /\ pc' = "merged"
    /\ UNCHANGED <<buffer, entry, dbc_input, lineNo, current_message_id,
                   signals_map, result, previous, build, shown>>

\* try_from: the value returned
TryFromReturn ==
    /\ pc = "merged"
    /\ result' = TryFromResult(messages, dbc_input)
    /\ pc' = "done"
    /\ UNCHANGED <<buffer, entry, dbc_input, lineNo, current_message_id,
                   signals_map, messages, previous, build, shown>>

\* the caller parses the same text a second time
Reparse ==
    /\ pc = "done"
    /\ entry = "try_from"
    /\ ~previous.ok
    /\ previous' = Some(result.messages)
    /\ Begin(buffer)
    /\ UNCHANGED <<buffer, entry, build, shown>>

\* a caller reads message.message_id.raw() of a message of the Dbc
CallRaw ==
    /\ pc = "done"
    /\ result.kind = "Ok"
    /\ \E k \in 1..Len(result.messages) :
           shown' = [op |-> "raw", message |-> result.messages[k],
                     out |-> raw(result.messages[k].message_id)]
    /\ UNCHANGED <<buffer, entry, dbc_input, pc, lineNo, current_message_id,
                   signals_map, messages, result, previous, build>>

\* a caller reads message.transmitter() of a message of the Dbc
CallTransmitter ==
    /\ pc = "done"
    /\ result.kind = "Ok"
    /\ \E k \in 1..Len(result.messages) :
           shown' = [op |-> "transmitter", message |-> result.messages[k],
                     out |-> transmitter(result.messages[k])]
    /\ UNCHANGED <<buffer, entry, dbc_input, pc, lineNo, current_message_id,
                   signals_map, messages, result, previous, build>>

\* a caller reads sig.vector_start_bit() of a signal of the Dbc
CallVectorStartBit ==
    /\ pc = "done"
    /\ result.kind = "Ok"
    /\ \E k \in 1..Len(result.messages) :
         \E j \in 1..Len(result.messages[k].signals) :
           shown' = [op |-> "vector_start_bit",
                     signal |-> result.messages[k].signals[j],
                     out |-> vector_start_bit(result.messages[k].signals[j],
                                              build)]
    /\ UNCHANGED <<buffer, entry, dbc_input, pc, lineNo, current_message_id,
                   signals_map, messages, result, previous, build>>

---------------------------------------------------------------------------
(* Specifications: the texts a caller may pass, and the calls it makes *)

\* the texts of at most n lines over a set of lines
Texts(lines, n) == UNION {[1..k -> lines] : k \in 0..n}

InitWith(texts, builds) ==
    /\ buffer \in texts
    /\ build \in builds
    /\ entry = "none"
    /\ dbc_input = <<>>
    /\ pc = "idle"
    /\ lineNo = 1
    /\ current_message_id = <<0, 0>>
    /\ signals_map = EmptyMap
    /\ messages = <<>>
    /\ result = NoResult
    /\ previous = None
    /\ shown = NoCall

---------------------------------------------------------------------------
(* SpecBits: one message with one signal line of every start bit, size and *)
(* byte order; the caller reads vector_start_bit of the parsed signal, in  *)
(* a debug or a release build.                                             *)

EngineData == Header(Id(0, 100), "EngineData", Dec(8), W_ECU, FALSE)

BitTokens(max) == {Dec(n) : n \in 0..max} \cup {Huge}

BitsTexts ==
    {<<EngineData,
       SignalLine("RPM", <<>>, start, size, order, "+", "0.25", "0", "0",
                  "16000", "rpm", <<W_Vector__XXX>>)>> :
        start \in BitTokens(MaxStartBit),
        size \in BitTokens(MaxSignalSize),
        order \in {"0", "1"}}

InitBits == InitWith(BitsTexts, {"debug", "release"})

NextBits ==
    \/ TryFrom
    \/ ScanLine
    \/ ParseMessage
    \/ TryFromReturn
    \/ CallVectorStartBit

SpecBits == InitBits /\ [][NextBits]_vars

\* C4 (as claimed): vector_start_bit of a Motorola signal never panics, for
\* every start_bit and signal_size a signal line can carry (0 included),
\* and yields end bit 0 whenever signal_size exceeds start_bit + 1.
C4_NeverPanics ==
    (shown.op = "vector_start_bit" /\ shown.signal.byte_order = "Motorola")
        => /\ ~shown.out.panicked
           /\ shown.signal.signal_size > shown.signal.start_bit + 1
                  => shown.out.val = 0

\* the reference rule of C5, over the integers
RefEndBit(start_bit, signal_size) ==
    IF start_bit - (signal_size - 1) > 0
    THEN start_bit - (signal_size - 1) ELSE 0

RefVectorStartBit(byte_order, start_bit, signal_size) ==
    IF byte_order = "Intel" THEN start_bit
    ELSE LET end_bit == RefEndBit(start_bit, signal_size)
         IN  IF start_bit \div 8 # end_bit \div 8 \/ signal_size > 8
             THEN end_bit
             ELSE IF start_bit % 8 = 7 THEN start_bit ELSE end_bit

---------------------------------------------------------------------------
(* Reference notions shared by the claims *)

\* the lines of a text that the name pattern reads an id from
IsHeaderOf(line, id) ==
    line.kind = "BO" /\ line.id.tok = "dec" /\ line.id.val = id

HeaderIds(text) ==
    {text[i].id.val : i \in {j \in 1..Len(text) :
                               text[j].kind = "BO" /\ text[j].id.tok = "dec"}}

\* the ids of a sequence of messages, in order
IdsOf(msgs) == [k \in 1..Len(msgs) |-> msgs[k].message_id.id]

\* the line on which the header of an id first appears
FirstHeader(text, id) ==
    CHOOSE i \in 1..Len(text) :
        /\ IsHeaderOf(text[i], id)
        /\ \A j \in 1..(i - 1) : ~IsHeaderOf(text[j], id)

---------------------------------------------------------------------------
(* SpecOrder: texts of message headers, parsed twice by the caller *)

OrderLines ==
    {Header(Id(0, 1), "A", Dec(8), W_ECU, FALSE),
     Header(Id(0, 2), "B", Dec(8), W_ECU, FALSE),
     Header(Id(0, 3), "C", Dec(8), W_ECU, FALSE),
     Header(Id(0, 1), "A2", Dec(8), W_ECU, FALSE)}

InitOrder == InitWith(Texts(OrderLines, MaxLines), {"release"})

NextOrder ==
    \/ TryFrom
    \/ ScanLine
    \/ ParseMessage
    \/ TryFromReturn
    \/ Reparse

SpecOrder == InitOrder /\ [][NextOrder]_vars

\* C1 (as claimed): when try_from succeeds, the messages are in the order
\* in which their headers first appear in the text, and a second parse of
\* the same text gives the same order.
C1_FirstAppearanceOrder ==
    (pc = "done" /\ result.kind = "Ok")
        => /\ \A a, b \in 1..Len(result.messages) :
                  a < b => FirstHeader(dbc_input, IdsOf(result.messages)[a])
                             < FirstHeader(dbc_input, IdsOf(result.messages)[b])
           /\ previous.ok => IdsOf(previous.val) = IdsOf(result.messages)

---------------------------------------------------------------------------
(* SpecIds: texts of headers with ids on both sides of 0x800 and of 2^29,  *)
(* an id with bit 31 set, an id that overflows u32, a repeated id and a    *)
(* header broken over two lines; the caller reads raw() of the messages.   *)

IdLines ==
    {EngineData,
     Header(Id(0, 100), "EngineData2", Absent, <<>>, FALSE),
     Header(Id(0, 2047), "Last11", Dec(8), W_ECU, FALSE),
     Header(Id(0, 2048), "First29", Dec(8), W_ECU, FALSE),
     Header(Id(8192, 0), "Bit29", Dec(8), W_ECU, FALSE),
     Header(Id(32768, 291), "Flagged", Dec(8), W_ECU, FALSE),
     Header(HugeId, "TooBig", Dec(8), W_ECU, FALSE),
     Header(Id(0, 7), "Wrapped", Dec(8), W_ECU, TRUE),
     Comment}

InitIds == InitWith(Texts(IdLines, MaxLines), {"release"})

NextIds ==
    \/ TryFrom
    \/ ScanLine
    \/ ParseMessage
    \/ TryFromReturn
    \/ CallRaw

SpecIds == InitIds /\ [][NextIds]_vars

\* C2: try_from ends with Invalid, carrying no message and the input text,
\* when the text has no header with an id, and otherwise with Ok and
\* exactly one message for each distinct header id.
C2_OutcomeByHeaderIds ==
    pc = "done"
        => IF HeaderIds(buffer) = {}
           THEN /\ result.kind = "Invalid"
                /\ result.messages = <<>>
                /\ result.text = buffer
           ELSE /\ result.kind = "Ok"
                /\ Len(result.messages) = Cardinality(HeaderIds(buffer))
                /\ \A id \in HeaderIds(buffer) :
                       \E k \in 1..Len(result.messages) :
                           result.messages[k].message_id.id = id
                /\ \A a, b \in 1..Len(result.messages) :
                       a # b => result.messages[a].message_id
                                  # result.messages[b].message_id

\* C2 witness: a text of three headers, one id recurring, no signal line,
\* parsed to two messages
C2_Witness ==
    /\ pc = "done"
    /\ result.kind = "Ok"
    /\ Len(buffer) = 3
    /\ \A i \in 1..3 : buffer[i].kind = "BO" /\ buffer[i].id.tok = "dec"
    /\ Len(result.messages) = 2

\* C7 (as claimed): a header id below 0x800 gives Standard holding an
\* 11-bit value, every other id gives Extended holding a 29-bit value, and
\* raw() is the id for Standard and the id with bit 31 set for Extended.
C7_DataModel ==
    /\ (pc = "done" /\ result.kind = "Ok")
           => \A k \in 1..Len(result.messages) :
                  LET m == result.messages[k].message_id
                  IN  \E id \in HeaderIds(buffer) :
                        /\ m.id = id
                        /\ IsStandardId(id) <=> m.variant = "Standard"
                        /\ m.variant = "Standard"
                               => m.id[1] = 0 /\ m.id[2] < 2048
                        /\ m.variant = "Extended" => m.id[1] < 8192
    /\ shown.op = "raw"
           => LET m == shown.message.message_id
              IN  /\ m.variant = "Standard" => shown.out = m.id
                  /\ m.variant = "Extended"
                         => /\ shown.out[1] >= 32768
                            /\ shown.out[1] % 32768 = m.id[1] % 32768
                            /\ shown.out[2] = m.id[2]

---------------------------------------------------------------------------
(* SpecTx: headers with and without a transmitter; the caller reads        *)
(* transmitter() of the messages.                                          *)

TxLines ==
    {Header(Id(0, 1), "A", Dec(8), W_ECU, FALSE),
     Header(Id(0, 1), "A", Dec(8), W_Vector, FALSE),
     Header(Id(0, 2), "B", Dec(8), W_Vector__XXX, FALSE),
     Header(Id(0, 2), "B", Dec(8), W_Vector__XXX_GW, FALSE),
     Header(Id(0, 3), "C", Dec(8), <<>>, FALSE),
     Header(Id(0, 3), "C", Absent, <<>>, FALSE),
     Comment}

InitTx == InitWith(Texts(TxLines, MaxLines), {"release"})

NextTx ==
    \/ TryFrom
    \/ ScanLine
    \/ ParseMessage
    \/ TryFromReturn
    \/ CallTransmitter

SpecTx == InitTx /\ [][NextTx]_vars

\* C8 (as claimed): transmitter() is "No Transmitter" when the stored
\* transmitter is Vector__XXX and the stored name for every other stored
\* transmitter; the message read still holds the raw text.
C8_TransmitterAccessor ==
    shown.op = "transmitter"
        => /\ shown.message.transmitter = W_Vector__XXX
                  => shown.out = W_No_Transmitter
           /\ shown.message.transmitter # W_Vector__XXX
                  => shown.out = shown.message.transmitter
           /\ \E k \in 1..Len(result.messages) :
                  result.messages[k] = shown.message

---------------------------------------------------------------------------
(* SpecMerge: headers, cycle-time directives and a signal line *)

PlainSignal(name) ==
    SignalLine(name, <<>>, Dec(0), Dec(8), "1", "+", "1", "0", "0", "5", "",
               <<>>)

MergeLines ==
    {Header(Id(0, 1), "A", Dec(8), W_ECU, FALSE),
     Header(Id(0, 2), "B", Absent, <<>>, FALSE),
     Header(Id(0, 1), "A2", Dec(4), <<>>, FALSE),
     DefaultCycle(Dec(100)),
     DefaultCycle(Huge),
     ExplicitCycle(Id(0, 1), Dec(20)),
     ExplicitCycle(Id(0, 3), Dec(50)),
     PlainSignal("S")}

InitMerge == InitWith(Texts(MergeLines, MaxLines), {"release"})

Next ==
    \/ TryFrom
    \/ ScanLine
    \/ ParseMessage
    \/ TryFromReturn

SpecMerge == InitMerge /\ [][Next]_vars

\* the last line of a text with a property, 0 if none
LastLine(text, P(_)) ==
    IF \E i \in 1..Len(text) : P(text[i])
    THEN CHOOSE i \in 1..Len(text) :
             P(text[i]) /\ \A j \in (i + 1)..Len(text) : ~P(text[j])
    ELSE 0

\* the cycle time the claim gives the message of an id
RefCycleTime(text, id) ==
    LET IsOverride(l) ==
            l.kind = "BA_CYCLE" /\ l.id = Dec(id) /\ l.n.tok = "dec"
        IsDefault(l) == l.kind = "BA_DEF_DEF"
        first == CHOOSE i \in 1..Len(text) :
                     IsDefault(text[i])
                         /\ \A j \in 1..(i - 1) : ~IsDefault(text[j])
    IN  IF LastLine(text, IsOverride) # 0
        THEN text[LastLine(text, IsOverride)].n.val
        ELSE IF (\E i \in 1..Len(text) : IsDefault(text[i]))
                    /\ text[first].n.tok = "dec"
        THEN text[first].n.val
        ELSE 0

\* the size the claim gives the message of an id
RefSize(text, id) ==
    LET HasSize(l) == IsHeaderOf(l, id) /\ l.size.tok = "dec"
    IN  IF LastLine(text, HasSize) # 0
        THEN text[LastLine(text, HasSize)].size.val
        ELSE 0

\* C6: every message is the left join of the name extractor's ids with the
\* other passes: the explicit cycle time of its id, else the document-wide
\* default, else 0; the extracted size or 0; the extracted transmitter or
\* Vector__XXX; the assembler's signals or none.  An id that only an
\* attribute directive names has no message.
C6_LeftJoin ==
    pc \in {"merged", "done"}
        => /\ {messages[k].message_id.id : k \in 1..Len(messages)}
                  = HeaderIds(dbc_input)
           /\ \A k \in 1..Len(messages) :
                  LET m == messages[k]
                      id == m.message_id.id
                      tx == parse_message_transmitters(dbc_input)
                  IN  /\ m.cycle_time = RefCycleTime(dbc_input, id)
                      /\ m.message_size = RefSize(dbc_input, id)
                      /\ m.transmitter =
                             IF id \in DOMAIN tx THEN tx[id] ELSE W_Vector__XXX
                      /\ m.signals =
                             IF id \in DOMAIN signals_map
                             THEN signals_map[id] ELSE <<>>

\* C6 witness: a message whose id has an explicit cycle time of 20 in a
\* text that also sets the default 100, next to a directive for an id that
\* no header names
C6_Witness ==
    /\ pc = "done"
    /\ \E i, j \in 1..Len(dbc_input) :
           /\ dbc_input[i] = DefaultCycle(Dec(100))
           /\ dbc_input[j] = ExplicitCycle(Id(0, 1), Dec(20))
    /\ Len(messages) = 1
    /\ messages[1].message_id.id = <<0, 1>>
    /\ messages[1].cycle_time = 20

---------------------------------------------------------------------------
(* SpecScan: headers and signal lines in every order, for the line scan of *)
(* parse_signals.  Id 0 is the value current_message_id starts with.       *)

ScanLines ==
    {Header(Id(0, 0), "Z", Dec(8), W_ECU, FALSE),
     Header(Id(0, 1), "A", Dec(8), W_ECU, FALSE),
     Header(HugeId, "TooBig", Dec(8), W_ECU, FALSE),
     Header(Id(0, 1), "A", Dec(8), W_ECU, TRUE),
     PlainSignal("S1"),
     PlainSignal("S2"),
     SignalLine("S3", <<>>, Dec(0), Dec(8), "1", "+", "x", "0", "0", "5", "",
                <<>>)}

InitScan == InitWith(Texts(ScanLines, MaxScanLines), {"release"})

SpecScan == InitScan /\ [][Next]_vars

\* a line the scan takes for a header and reads an id from
IsScanHeader(line) ==
    line.kind = "BO" /\ ~line.wrapped /\ line.id.tok = "dec"

\* the id of the most recent header line before line i, if there is one
Owner(text, i) ==
    IF \E j \in 1..(i - 1) : IsScanHeader(text[j])
    THEN Some(text[CHOOSE j \in 1..(i - 1) :
                       /\ IsScanHeader(text[j])
                       /\ \A h \in (j + 1)..(i - 1) : ~IsScanHeader(text[h])
                  ].id.val)
    ELSE None

\* the names of the accepted signal lines among the first n lines whose
\* most recent preceding header has id X, in line order
RECURSIVE SignalsUnder(_, _, _)
SignalsUnder(text, n, X) ==
    IF n = 0 THEN <<>>
    ELSE IF /\ SignalParses(text[n])
            /\ Owner(text, n).ok
            /\ Owner(text, n).val = X
    THEN Append(SignalsUnder(text, n - 1, X), text[n].name)
    ELSE SignalsUnder(text, n - 1, X)

\* C9: at every point of the line scan, and so after it, the signal list
\* of id X is the sequence, in line order, of the accepted signal lines
\* whose most recent preceding header line has id X; a signal line before
\* every header is in no list, and neither a header of another id nor a
\* repeated header of X removes a signal already collected.
C9_SignalsFollowHeader ==
    pc # "idle"
        => /\ DOMAIN signals_map =
                  {dbc_input[j].id.val :
                      j \in {h \in 1..(lineNo - 1) :
                                IsScanHeader(dbc_input[h])}}
           /\ \A X \in DOMAIN signals_map :
                  [k \in 1..Len(signals_map[X]) |-> signals_map[X][k].name]
                      = SignalsUnder(dbc_input, lineNo - 1, X)

\* C9 witness: header X, a signal, header X again, a signal: after the
\* scan both signals are in the list of X
C9_Witness ==
    /\ pc = "done"
    /\ Len(dbc_input) = 4
    /\ IsScanHeader(dbc_input[1])
    /\ SignalParses(dbc_input[2])
    /\ dbc_input[3] = dbc_input[1]
    /\ SignalParses(dbc_input[4])
    /\ Len(signals_map[dbc_input[1].id.val]) = 2

---------------------------------------------------------------------------
(* SpecValues: signal lines with VAL_ and GenSigStartValue directives      *)
(* before and after them, for the same and for other ids and names.        *)

Pair(value, label) == [value |-> value, label |-> label]

ValueLines ==
    {Header(Id(0, 1), "A", Dec(8), W_ECU, FALSE),
     Header(Id(0, 2), "B", Dec(8), W_ECU, FALSE),
     PlainSignal("S"),
     ValLine(Id(0, 1), "S",
             <<Pair(Dec(0), "Off"), Pair(Dec(1), "On"), Pair(Dec(1), "Go")>>),
     ValLine(Id(0, 1), "S", <<Pair(Huge, "Big"), Pair(Dec(1), "")>>),
     ValLine(Id(0, 2), "S", <<Pair(Dec(0), "Zero")>>),
     StartValue(Id(0, 1), "S", "5"),
     StartValue(Id(0, 1), "S", "x"),
     StartValue(Id(0, 1), "T", "1")}

InitValues == InitWith(Texts(ValueLines, MaxScanLines), {"release"})

SpecValues == InitValues /\ [][Next]_vars

\* the table of the pairs of one VAL_ directive: the label of the last
\* pair of each value
RefPairs(pairs) ==
    LET Good(p) == p.label # "" /\ p.value.tok = "dec"
        values == {pairs[k].value.val :
                      k \in {h \in 1..Len(pairs) : Good(pairs[h])}}
    IN  [v \in values |->
            pairs[CHOOSE k \in 1..Len(pairs) :
                      /\ Good(pairs[k])
                      /\ pairs[k].value.val = v
                      /\ \A h \in (k + 1)..Len(pairs) :
                             ~(Good(pairs[h]) /\ pairs[h].value.val = v)
                 ].label]

\* the table of the VAL_ directive for (X, S): the last one with a pair
RefTable(text, X, S) ==
    LET IsVal(l) == /\ l.kind = "VAL"
                    /\ l.id = Dec(X)
                    /\ l.sig = S
                    /\ DOMAIN RefPairs(l.pairs) # {}
    IN  IF LastLine(text, IsVal) = 0 THEN EmptyMap
        ELSE RefPairs(text[LastLine(text, IsVal)].pairs)

\* the value of the GenSigStartValue directive for (X, S): the last one
\* whose value is a number
RefInitial(text, X, S) ==
    LET IsStart(l) == /\ l.kind = "BA_START"
                      /\ l.id = Dec(X)
                      /\ l.sig = S
                      /\ ParseF64(l.value).ok
    IN  IF LastLine(text, IsStart) = 0 THEN 0
        ELSE ParseF64(text[LastLine(text, IsStart)].value).val

\* C10: every signal S collected under current id X has the table of the
\* VAL_ directive for (X, S) and the value of the GenSigStartValue
\* directive for (X, S), wherever in the text the directive stands, and an
\* empty table / 0.0 when there is none (or none with a pair / a number).
C10_DirectivesByIdAndName ==
    \A X \in DOMAIN signals_map :
        \A k \in 1..Len(signals_map[X]) :
            LET sg == signals_map[X][k]
            IN  /\ sg.value_descriptions = RefTable(dbc_input, X, sg.name)
                /\ sg.initial_value = RefInitial(dbc_input, X, sg.name)

\* C10 witness: a signal S of message 1 followed by its VAL_ and its
\* GenSigStartValue directive, parsed with that table and the value 5.0
C10_Witness ==
    /\ pc = "done"
    /\ Len(dbc_input) = 4
    /\ dbc_input[1].kind = "BO"
    /\ dbc_input[2].kind = "SG"
    /\ dbc_input[3].kind = "VAL"
    /\ dbc_input[4].kind = "BA_START"
    /\ <<0, 1>> \in DOMAIN signals_map
    /\ Len(signals_map[<<0, 1>>]) = 1
    /\ signals_map[<<0, 1>>][1].value_descriptions = (0 :> "Off" @@ 1 :> "Go")
    /\ signals_map[<<0, 1>>][1].initial_value = 20

---------------------------------------------------------------------------
(* SpecSlice: byte buffers, some with lines that are not valid UTF-8,      *)
(* handed to from_slice and to from_slice_lossy.                           *)

SliceLines == {EngineData, PlainSignal("S"), BadBytes, Comment}

InitSlice == InitWith(Texts(SliceLines, MaxLines), {"release"})

NextSlice ==
    \/ FromSlice
    \/ FromSliceLossy
    \/ ScanLine
    \/ ParseMessage
    \/ TryFromReturn

SpecSlice == InitSlice /\ [][NextSlice]_vars

\* C3 (as claimed): from_slice of a buffer that is not valid UTF-8 returns
\* a decoding failure, a value other than Invalid, and builds no Dbc;
\* from_slice_lossy parses the text with replacement characters and ends
\* with Ok or Invalid.
C3_StrictDecodingFailure ==
    /\ (entry = "from_slice" /\ ~ValidUtf8(buffer))
           => /\ result.kind \notin {"panic", "Invalid", "Ok"}
              /\ result.messages = <<>>
    /\ entry = "from_slice_lossy"
           => /\ dbc_input = from_utf8_lossy(buffer)
              /\ pc = "done" => result.kind \in {"Ok", "Invalid"}

====
